---- MODULE Spec2Model ----
(***************************************************************************)
(* Cursor-based pagination of the news API: the cursor codec               *)
(* (PaginationCursor.encode / decode), the cursor query builder            *)
(* (PaginationCursor.build_cursor_query), the page assembler               *)
(* (create_pagination_response), the query service                         *)
(* (NewsService.get_news_list) running against a MongoDB collection, the   *)
(* GET /news handler of the router, and the rate limiter of the            *)
(* middleware (RateLimiter.is_allowed).                                    *)
(***************************************************************************)
EXTENDS Integers, Sequences, FiniteSets, TLC

VARIABLES
    collection,   \* the documents of the news collection
    params,       \* the NewsQueryParams of the paging session (cursor excluded)
    cursor,       \* the cursor the client passes with its next request
    pages,        \* the pages the session has received, oldest first
    stable,       \* the documents present ever since the session began
    used,         \* every identifier the collection has ever held
    id_type,      \* the type of the collection's _id values
    pc,           \* where the paging session is
    call,         \* the last call of a codec / builder / assembler function
    ret,          \* what that call returned or raised
    limiter,      \* the RateLimiter of the rate limiting middleware
    now,          \* the clock, time.time()
    history,      \* every is_allowed call so far with what it returned
    tasks,        \* where each request handler of the middleware is
    running       \* the handler that holds the event loop (0: none)

vars == <<collection, params, cursor, pages, stable, used, id_type, pc, call,
          ret, limiter, now, history, tasks, running>>

(***************************************************************************)
(* Bounds of the model.                                                    *)
(***************************************************************************)
MaxDocs == 3      \* identifiers a collection draws from
MaxTime == 2      \* distinct instants of releasedAt / createdAt
MaxTitle == 2     \* distinct titles
MaxLimit == 2     \* largest page size requested
MaxItems == 3     \* longest item list handed to create_pagination_response
MaxRequests == 2  \* largest max_requests of a rate limiter
MaxWindow == 2    \* largest window_seconds of a rate limiter
MaxNow == 4       \* last instant of the clock
MaxCalls == 4     \* is_allowed calls followed
MaxHandlers == 2  \* request handlers running concurrently

(***************************************************************************)
(* Python / BSON values.  Every value is a record of the same shape:       *)
(*   ObjectId(n)      the n-th ObjectId (ObjectIds order as their hex)     *)
(*   Datetime(n, tz)  instant n; tz "" is a naive datetime, "+00:00" an    *)
(*                    aware one in timezone.utc, "GMT" an aware one in a   *)
(*                    named zone of zero offset                            *)
(*   Str(form, n, s)  a string: "hex" the 24-digit hex text of ObjectId n, *)
(*                    "iso" the ISO-8601 text of instant n with offset     *)
(*                    suffix s, "text" the n-th title or source name,      *)
(*                    "None" the text "None", "empty" the empty string     *)
(*   PyInt(n), None                                                         *)
(***************************************************************************)
Val(type, form, n, sfx) == [type |-> type, form |-> form, n |-> n, sfx |-> sfx]

ObjectId(n) == Val("ObjectId", "", n, "")

Datetime(n, tz) == Val("datetime", "", n, tz)

Str(form, n, sfx) == Val("str", form, n, sfx)

PyInt(n) == Val("int", "", n, "")

None == Val("NoneType", "", 0, "")

\* Results of calls that may raise.
Ok(v) == [ok |-> TRUE, exc |-> "", val |-> v]

Raise(e) == [ok |-> FALSE, exc |-> e, val |-> None]

\* Python str(value)
py_str(v) ==
    CASE v.type = "str" -> v
      [] v.type = "ObjectId" -> Str("hex", v.n, "")
      [] v.type = "NoneType" -> Str("None", 0, "")
      [] v.type = "int" -> Str("dec", v.n, "")
      [] v.type = "datetime" ->
            Str("str(datetime)", v.n, IF v.sfx = "GMT" THEN "+00:00" ELSE v.sfx)

\* datetime.utcoffset() as isoformat writes it
utcoffset(d) == IF d.sfx = "GMT" THEN "+00:00" ELSE d.sfx

\* datetime.isoformat()
isoformat(d) == Str("iso", d.n, utcoffset(d))

\* datetime.fromisoformat(text): only ISO-8601 text with no offset or a
\* numeric offset parses.
fromisoformat(s) ==
    IF s.form = "iso" /\ s.sfx \in {"", "+00:00"}
    THEN Ok(Datetime(s.n, s.sfx))
    ELSE Raise("ValueError")

\* Truthiness of a value (`not value`).
falsy(v) ==
    \/ v.type = "NoneType"
    \/ v.type = "int" /\ v.n = 0
    \/ v.type = "str" /\ v.form = "empty"

(***************************************************************************)
(* Python objects that json.loads can return.  A dict is its sequence of   *)
(* <<key, value>> pairs in insertion order, keys distinct.                 *)
(***************************************************************************)
Dict(pairs) == [kind |-> "dict", pairs |-> pairs]

Keys(d) == {d.pairs[i][1] : i \in 1..Len(d.pairs)}

\* dict.get(key)
get(d, key) ==
    IF key \in Keys(d)
    THEN (CHOOSE i \in 1..Len(d.pairs) : d.pairs[i][1] = key)
         \* the chosen index is unique: keys are distinct
    ELSE 0

Get(d, key) == IF get(d, key) = 0 THEN None ELSE d.pairs[get(d, key)][2]

\* The mapping a dict denotes (insertion order forgotten).
AsMapping(d) == [k \in Keys(d) |-> Get(d, k)]

\* Code-point order of the field names used as cursor keys.
KeyRank(k) ==
    CASE k = "_id" -> 1
      [] k = "createdAt" -> 2
      [] k = "releasedAt" -> 3
      [] k = "title" -> 4
      [] k = "updatedAt" -> 5

\* Insert one pair into a sequence of pairs kept sorted by key.
RECURSIVE InsertSorted(_, _)
InsertSorted(p, s) ==
    IF s = <<>> THEN <<p>>
    ELSE IF KeyRank(p[1]) <= KeyRank(Head(s)[1]) THEN <<p>> \o s
    ELSE <<Head(s)>> \o InsertSorted(p, Tail(s))

RECURSIVE SortByKey(_)
SortByKey(s) ==
    IF s = <<>> THEN <<>> ELSE InsertSorted(Head(s), SortByKey(Tail(s)))

(***************************************************************************)
(* Texts and tokens.  A text is what the bytes of a token spell: a JSON    *)
(* object with its members in written order, another JSON value, text that *)
(* is not JSON, no text at all, or bytes that are not UTF-8.  A token is   *)
(* the text its base64-alphabet characters carry, whether those            *)
(* characters are correctly padded, and whether characters outside the     *)
(* alphabet are mixed in.                                                  *)
(***************************************************************************)
Text(kind, pairs) == [kind |-> kind, pairs |-> pairs]

Token(text, padok, junk) == [text |-> text, padok |-> padok, junk |-> junk]

\* The empty string.
EmptyToken == Token(Text("empty", <<>>), TRUE, FALSE)

\* json.dumps(data, sort_keys=True)
json_dumps_unsorted(data) == Text("object", data.pairs)

json_dumps(data) == Text("object", SortByKey(data.pairs))

\* Members of a JSON object as a dict: a repeated key keeps its first
\* position and its last value.
RECURSIVE LoadPairs(_, _)
LoadPairs(pairs, acc) ==
    IF pairs = <<>> THEN acc
    ELSE LET p == Head(pairs)
             i == get(Dict(acc), p[1])
         IN LoadPairs(Tail(pairs),
                      IF i = 0 THEN Append(acc, p) ELSE [acc EXCEPT ![i] = p])

\* json.loads(text)
json_loads(text) ==
    CASE text.kind = "object" -> Ok(Dict(LoadPairs(text.pairs, <<>>)))
      [] text.kind \in {"array", "empty-array", "number", "string", "null"} ->
            Ok([kind |-> text.kind, pairs |-> <<>>])
      [] OTHER -> Raise("JSONDecodeError")

\* `not obj` for what json.loads returned: an empty dict, an empty list
\* and None are false ("number" and "string" stand for non-zero, non-empty
\* ones).
empty_object(obj) ==
    \/ obj.kind \in {"null", "empty-array"}
    \/ obj.kind = "dict" /\ obj.pairs = <<>>

\* base64.b64encode(bytes).decode()
b64encode(text) == Token(text, TRUE, FALSE)

\* base64.b64decode(token): characters outside the alphabet are discarded
\* before the padding check (validate defaults to False).
b64decode(token) ==
    IF token.padok THEN Ok(token.text) ELSE Raise("binascii.Error")

\* bytes.decode()
bytes_decode(text) ==
    IF text.kind = "not-utf8" THEN Raise("UnicodeDecodeError") ELSE Ok(text)

\* The value encode stores for one field.
serializable_str(value) == py_str(value)

\* `if iso_string.endswith('+00:00'): iso_string.replace('+00:00', 'Z')`
replace_none(iso_string) == iso_string

replace(iso_string) ==
    IF iso_string.sfx = "+00:00"
    THEN Str("iso", iso_string.n, "Z")
    ELSE iso_string

serializable(value) ==
    IF value.type = "datetime"
    THEN replace(isoformat(value))
    ELSE py_str(value)

\* The try block of encode: None has no items(), and json.dumps refuses
\* a mapping with a tuple among its keys.
encode_try(cursor_data) ==
    CASE cursor_data.kind = "dict" ->
            LET serializable_data ==
                    Dict([i \in 1..Len(cursor_data.pairs) |->
                            <<cursor_data.pairs[i][1],
                              serializable(cursor_data.pairs[i][2])>>])
                json_str == json_dumps(serializable_data)
            IN Ok(b64encode(json_str))
      [] cursor_data.kind = "null" -> Raise("AttributeError")
      [] cursor_data.kind = "tuple-keyed dict" -> Raise("TypeError")

\* PaginationCursor.encode: `except Exception as e: raise
\* InvalidCursorException(...)`
encode(cursor_data) ==
    LET encoded == encode_try(cursor_data)
    IN IF encoded.ok THEN encoded ELSE Raise("InvalidCursorException")

\* PaginationCursor.decode
decode(token) ==
    LET decoded == b64decode(token)
        text == IF decoded.ok THEN bytes_decode(decoded.val) ELSE decoded
        cursor_data == IF text.ok THEN json_loads(text.val) ELSE text
    IN IF cursor_data.ok
       THEN cursor_data
       ELSE Raise("InvalidCursorException")

(***************************************************************************)
(* MongoDB queries.  A query (a Python dict) is the set of its conditions: *)
(* a field condition compares one field with a value, a "$or" / "$and"     *)
(* condition combines sub-queries.  The empty set is the empty predicate.  *)
(***************************************************************************)
Cond(key, op, val) == [key |-> key, op |-> op, val |-> val, subs |-> <<>>]

Combine(key, subs) == [key |-> key, op |-> "", val |-> None, subs |-> subs]

\* BSON type of a value as the server sees it.
BsonType(v) ==
    CASE v.type = "NoneType" -> "null"
      [] v.type = "int" -> "number"
      [] v.type = "str" -> "string"
      [] v.type = "ObjectId" -> "objectId"
      [] v.type = "datetime" -> "date"

\* Position of a BSON type in the server's cross-type sort order.
TypeRank(v) ==
    CASE BsonType(v) = "null" -> 1
      [] BsonType(v) = "number" -> 2
      [] BsonType(v) = "string" -> 3
      [] BsonType(v) = "objectId" -> 4
      [] BsonType(v) = "date" -> 5

\* Code-point order of the first characters of the string forms:
\* "" < "2025-.." (iso) < "507f.." (hex) < "Article n" (text) < "None".
FormRank(s) ==
    CASE s.form = "empty" -> 0
      [] s.form = "iso" -> 1
      [] s.form = "hex" -> 2
      [] s.form = "text" -> 3
      [] s.form = "None" -> 4
      [] OTHER -> 5

\* Order of two values of one BSON type (a date is its instant).
SameTypeLess(a, b) ==
    IF BsonType(a) = "string"
    THEN \/ FormRank(a) < FormRank(b)
         \/ FormRank(a) = FormRank(b) /\ a.n < b.n
    ELSE a.n < b.n

SameTypeEq(a, b) ==
    IF BsonType(a) = "string" THEN a = b ELSE a.n = b.n

\* The server's sort order over values of any type.
BsonLess(a, b) ==
    IF BsonType(a) = BsonType(b)
    THEN SameTypeLess(a, b)
    ELSE TypeRank(a) < TypeRank(b)

\* The values a query path selects in a document: the field's value, or
\* for "assets.slug" the slug of every element of the `assets` array (an
\* asset is modelled by its slug).
field_values(doc, key) ==
    IF key = "assets.slug"
    THEN (IF "assets" \in DOMAIN doc
          THEN {doc["assets"][i] : i \in 1..Len(doc["assets"])}
          ELSE {})
    ELSE IF key \in DOMAIN doc THEN {doc[key]} ELSE {}

\* {"$regex": pattern, "$options": options}: an unanchored search for the
\* pattern.  A text Str("text", n, _) is the one that contains the word
\* Str("word", n, _); the suffix tells the letter case it is written in,
\* which option "i" ignores.
regex_search(value, pattern, options) ==
    /\ value.form = "text"
    /\ pattern.form = "word"
    /\ value.n = pattern.n
    /\ options = "i" \/ value.sfx = pattern.sfx

\* A comparison operator of a query matches only a field value of the
\* BSON type of the query's value (type bracketing).
FieldMatches(c, doc) ==
    \E v \in field_values(doc, c.key) :
        /\ BsonType(v) = BsonType(c.val)
        /\ CASE c.op = "$eq" -> SameTypeEq(v, c.val)
             [] c.op = "$lt" -> SameTypeLess(v, c.val)
             [] c.op = "$gt" -> SameTypeLess(c.val, v)
             [] c.op = "$lte" -> ~SameTypeLess(c.val, v)
             [] c.op = "$gte" -> ~SameTypeLess(v, c.val)
             [] c.op = "$regex" -> regex_search(v, c.val, "i")

RECURSIVE Matches(_, _)
Matches(query, doc) ==
    \A c \in query :
        CASE c.key = "$or" -> \E i \in 1..Len(c.subs) : Matches(c.subs[i], doc)
          [] c.key = "$and" -> \A i \in 1..Len(c.subs) : Matches(c.subs[i], doc)
          [] OTHER -> FieldMatches(c, doc)

\* Whether document a comes before document b under sort criteria
\* <<field, direction>>, ...
RECURSIVE Precedes(_, _, _)
Precedes(a, b, criteria) ==
    IF criteria = <<>> THEN FALSE
    ELSE LET f == criteria[1][1]
             direction == criteria[1][2]
         IN IF BsonLess(a[f], b[f]) THEN direction = 1
            ELSE IF BsonLess(b[f], a[f]) THEN direction = -1
            ELSE Precedes(a, b, Tail(criteria))

RECURSIVE SortDocs(_, _)
SortDocs(docs, criteria) ==
    IF docs = {} THEN <<>>
    ELSE LET first == CHOOSE d \in docs :
                        \A e \in docs \ {d} : ~Precedes(e, d, criteria)
         IN <<first>> \o SortDocs(docs \ {first}, criteria)

Take(s, n) == SubSeq(s, 1, IF Len(s) < n THEN Len(s) ELSE n)

\* collection.find(query).sort(sort_criteria).limit(n).to_list(n)
find(docs, query, sort_criteria, n) ==
    Take(SortDocs({d \in docs : Matches(query, d)}, sort_criteria), n)

(***************************************************************************)
(* The cursor query builder.                                               *)
(***************************************************************************)
TemporalFields == {"releasedAt", "createdAt", "updatedAt"}

\* `not cursor_id or cursor_value is None`
incomplete_both(cursor_id, cursor_value) ==
    falsy(cursor_id) /\ cursor_value = None

incomplete(cursor_id, cursor_value) ==
    falsy(cursor_id) \/ cursor_value = None

\* The parse of a string sort value: `fromisoformat(cursor_value.replace(
\* 'Z', '+00:00'))` when it ends with 'Z', `fromisoformat(cursor_value)`
\* otherwise.
to_datetime_no_z(cursor_value) == fromisoformat(cursor_value)

to_datetime(cursor_value) ==
    fromisoformat(IF cursor_value.sfx = "Z"
                  THEN [cursor_value EXCEPT !.sfx = "+00:00"]
                  ELSE cursor_value)

\* PaginationCursor.build_cursor_query
build_cursor_query(cursor_data, sort_field, sort_order) ==
    IF empty_object(cursor_data)
    THEN Ok({})
    ELSE IF cursor_data.kind # "dict"
    THEN Raise("AttributeError")
    ELSE
    LET cursor_id == Get(cursor_data, "_id")
        cursor_value == Get(cursor_data, sort_field)
    IN IF incomplete(cursor_id, cursor_value)
       THEN Ok({})
       ELSE
       LET parsed == to_datetime(cursor_value)
           value == IF /\ sort_field \in TemporalFields
                       /\ cursor_value.type = "str"
                       /\ parsed.ok
                    THEN parsed.val
                    ELSE cursor_value
       IN IF sort_order = "desc"
          THEN Ok({Combine("$or",
                     << {Cond(sort_field, "$lt", value)},
                        {Cond(sort_field, "$eq", value),
                         Cond("_id", "$lt", cursor_id)} >>)})
          ELSE Ok({Combine("$or",
                     << {Cond(sort_field, "$gt", value)},
                        {Cond(sort_field, "$eq", value),
                         Cond("_id", "$gt", cursor_id)} >>)})

\* `not cursor` for an optional cursor string: <<>> is None.
no_cursor(c) == c = <<>> \/ c[1] = EmptyToken

\* CursorService.build_cursor_query
CursorService_build_cursor_query(c, sort_field, sort_order) ==
    IF no_cursor(c) THEN Ok({})
    ELSE LET cursor_data == decode(c[1])
         IN IF cursor_data.ok
            THEN build_cursor_query(cursor_data.val, sort_field, sort_order)
            ELSE cursor_data

(***************************************************************************)
(* The page assembler.                                                     *)
(***************************************************************************)
item_get(item, field) == IF field \in DOMAIN item THEN item[field] ELSE None

\* The cursor create_pagination_response derives from one item.
item_cursor_no_id(item, sort_field) ==
    encode(Dict(<< <<sort_field, item_get(item, sort_field)>> >>))

item_cursor(item, sort_field) ==
    encode(Dict(<< <<"_id", py_str(item["_id"])>>,
                   <<sort_field, item_get(item, sort_field)>> >>))

\* has_next := len(items) > limit
has_next_ge(items, limit) == Len(items) >= limit

has_next_of(items, limit) == Len(items) > limit

\* `if has_next: items = items[:limit]`
trim_never(items, limit) == items

trim(items, limit) ==
    IF has_next_of(items, limit) THEN SubSeq(items, 1, limit) ELSE items

\* Truthiness of the trimmed list (`and items`).
nonempty_always(items) == TRUE

nonempty(items) == items # <<>>

\* encode of the cursor of items[i]; indexing past the list raises.
cursor_at(items, i, sort_field) ==
    IF i \in 1..Len(items)
    THEN item_cursor(items[i], sort_field)
    ELSE Raise("IndexError")

\* `first_item = items[0]`: the position of the item prev_cursor encodes.
first_item_last(items) == Len(items)

first_item(items) == 1

\* create_pagination_response
create_pagination_response(items, limit, sort_field, has_prev) ==
    LET has_next == has_next_of(items, limit)
        kept == trim(items, limit)
        with_next == has_next /\ nonempty(kept)
        with_prev == has_prev /\ nonempty(kept)
        next_cursor == IF with_next
                       THEN cursor_at(kept, Len(kept), sort_field)
                       ELSE Ok(None)
        prev_cursor == IF with_prev
                       THEN cursor_at(kept, first_item(kept), sort_field)
                       ELSE Ok(None)
    IN IF ~next_cursor.ok THEN next_cursor
       ELSE IF ~prev_cursor.ok THEN prev_cursor
       ELSE Ok([next_cursor |-> IF with_next
                                THEN <<next_cursor.val>> ELSE <<>>,
                prev_cursor |-> IF with_prev
                                THEN <<prev_cursor.val>> ELSE <<>>,
                has_next |-> has_next,
                has_prev |-> has_prev,
                limit |-> limit,
                returned |-> Len(kept)])

(***************************************************************************)
(* The query service.                                                      *)
(***************************************************************************)
\* NewsService._build_query; an absent parameter is <<>>.
_build_query(p) ==
    (IF p.from_date # <<>>
     THEN {Cond("releasedAt", "$gte", p.from_date[1])} ELSE {})
    \cup (IF p.to_date # <<>>
          THEN {Cond("releasedAt", "$lte", p.to_date[1])} ELSE {})
    \cup (IF p.source # <<>>
          THEN {Cond("source", "$eq", p.source[1])} ELSE {})
    \cup (IF p.asset_slug # <<>>
          THEN {Cond("assets.slug", "$eq", p.asset_slug[1])} ELSE {})
    \cup (IF p.keyword # <<>>
          THEN {Combine("$or",
                  << {Cond("title", "$regex", p.keyword[1])},
                     {Cond("content", "$regex", p.keyword[1])},
                     {Cond("subtitle", "$regex", p.keyword[1])} >>)}
          ELSE {})

\* NewsService._build_sort_criteria
_build_sort_criteria_id_asc(sort_field, sort_order) ==
    LET direction == IF sort_order = "asc" THEN 1 ELSE -1
    IN << <<sort_field, direction>>, <<"_id", 1>> >>

_build_sort_criteria(sort_field, sort_order) ==
    LET direction == IF sort_order = "asc" THEN 1 ELSE -1
    IN << <<sort_field, direction>>, <<"_id", direction>> >>

\* {"$and": [query, cursor_query]}
and_query_update(base, cursor_query) ==
    {c \in base : \A k \in cursor_query : k.key # c.key} \cup cursor_query

and_query(base, cursor_query) == {Combine("$and", <<base, cursor_query>>)}

\* `if cursor_query: query = {"$and": [query, cursor_query]} if query else
\* cursor_query`
combined_query_always(base, cursor_query) ==
    {Combine("$and", <<base, cursor_query>>)}

combined_query(base, cursor_query) ==
    IF cursor_query # {}
    THEN (IF base # {}
          THEN and_query(base, cursor_query)
          ELSE cursor_query)
    ELSE base

\* `item["_id"] = str(item["_id"])` for every fetched item
str_ids(fetched) ==
    [i \in 1..Len(fetched) |-> [fetched[i] EXCEPT !["_id"] = py_str(@)]]

\* The tuple get_news_list returns (with the query it sent).
news_list_result(items, pagination, limit, query) ==
    IF ~pagination.ok THEN pagination
    ELSE Ok([items |-> Take(items, limit),
             pagination |-> pagination.val,
             query |-> query])

\* `has_prev=bool(params.cursor)`
has_prev_never(c) == FALSE

has_prev_of(c) == ~no_cursor(c)

\* get_news_list from the converted items on.
paginate(items, p, query) ==
    news_list_result(
        items,
        create_pagination_response(items, p.limit, p.sort_by,
                                   has_prev_of(p.cursor)),
        p.limit, query)

\* What a call of the service did and returned: its outcome and the
\* queries it issued to the collection, in order.
Issued(r, finds) ==
    [ok |-> r.ok, exc |-> r.exc, val |-> r.val, finds |-> finds]

\* collection.find(query, projection).sort(sort_criteria).limit(n)
find_call(query, sort_criteria, n) ==
    [op |-> "find", query |-> query, sort |-> sort_criteria, limit |-> n]

\* `.limit(params.limit + 1)` and `to_list(length=params.limit + 1)`
query_limit_exact(limit) == limit

query_limit(limit) == limit + 1

\* NewsService._get_list_projection: the fields a list item leaves out.
_get_list_projection == {"content"}

\* What the projection keeps of each fetched document.
project(fetched, excluded) ==
    [i \in 1..Len(fetched) |->
        [f \in DOMAIN fetched[i] \ excluded |-> fetched[i][f]]]

\* get_news_list from the combined query on.
fetch(p, docs, query) ==
    LET sort_criteria == _build_sort_criteria(p.sort_by, p.order)
        n == query_limit(p.limit)
    IN Issued(paginate(str_ids(project(find(docs, query, sort_criteria, n),
                                       _get_list_projection)),
                       p, query),
              <<find_call(query, sort_criteria, n)>>)

\* get_news_list once the cursor query is built (or has raised).
with_cursor_query_find_first(p, docs, cursor_query) ==
    IF ~cursor_query.ok
    THEN Issued(cursor_query,
                <<find_call(_build_query(p),
                            _build_sort_criteria(p.sort_by, p.order),
                            query_limit(p.limit))>>)
    ELSE fetch(p, docs, combined_query(_build_query(p), cursor_query.val))

with_cursor_query(p, docs, cursor_query) ==
    IF ~cursor_query.ok THEN Issued(cursor_query, <<>>)
    ELSE fetch(p, docs, combined_query(_build_query(p), cursor_query.val))

\* NewsService.get_news_list
get_news_list(p, docs) ==
    with_cursor_query(
        p, docs,
        CursorService_build_cursor_query(p.cursor, p.sort_by, p.order))

(***************************************************************************)
(* The query parameters of a list request: an absent parameter is <<>>.    *)
(***************************************************************************)
\* The values of the enums SortField and SortOrder.
SortFields == {"releasedAt", "title", "createdAt"}

SortOrders == {"asc", "desc"}

\* datetime.now(timezone.utc): the stored instants lie in the past, the
\* one after them in the future.
utcnow == MaxTime

\* The exception classes `except ValueError` catches; pydantic's
\* ValidationError is one.
ValueErrors == {"ValueError", "ValidationError"}

\* NewsQueryParams.validate_dates: a naive date is taken as UTC; a date in
\* the future is refused.
validate_dates(v) ==
    IF v = <<>> THEN Ok(v)
    ELSE IF v[1].n > utcnow THEN Raise("ValueError")
    ELSE Ok(<<Datetime(v[1].n, IF v[1].sfx = "" THEN "+00:00" ELSE v[1].sfx)>>)

\* NewsQueryParams.validate_date_range
validate_date_range(v, from_date) ==
    IF v # <<>> /\ from_date # <<>> /\ v[1].n < from_date[1].n
    THEN Raise("ValueError")
    ELSE Ok(v)

\* NewsQueryParams(**params_dict): the validated parameters, or the
\* ValidationError that collects what the fields' validators raised.
NewsQueryParams(d) ==
    LET from_date == validate_dates(d.from_date)
        to_date == validate_dates(d.to_date)
        range == IF to_date.ok
                 THEN validate_date_range(
                        to_date.val,
                        IF from_date.ok THEN from_date.val ELSE <<>>)
                 ELSE to_date
    IN IF /\ from_date.ok
          /\ range.ok
          /\ d.sort_by \in SortFields
          /\ d.order \in SortOrders
       THEN Ok([d EXCEPT !.from_date = from_date.val, !.to_date = range.val])
       ELSE Raise("ValidationError")

(***************************************************************************)
(* The GET /news handler of the router.                                    *)
(***************************************************************************)
\* raise HTTPException(status_code, detail = {"error": {"code": ...}})
HTTPException(status_code, error_code) ==
    [ok |-> FALSE, exc |-> "HTTPException",
     val |-> [status |-> status_code, code |-> error_code]]

\* utils.exceptions.invalid_cursor_exception
invalid_cursor_exception == HTTPException(400, "INVALID_CURSOR")

\* The except clauses of the handler, applied to what the service call
\* returned or raised: any other exception is raised again.
handle_cursor_only(r) ==
    IF r.ok THEN Ok([data |-> r.val.items, pagination |-> r.val.pagination])
    ELSE IF r.exc = "InvalidCursorException"
    THEN invalid_cursor_exception
    ELSE r

handle(r) ==
    IF r.ok THEN Ok([data |-> r.val.items, pagination |-> r.val.pagination])
    ELSE IF r.exc \in {"InvalidCursorException"} \cup ValueErrors
    THEN invalid_cursor_exception
    ELSE r

\* The from_date / to_date string of the query (absent: <<>>) as the
\* handler parses it; a string that does not parse is answered
\* 400 INVALID_DATE_FORMAT.
parse_date(text) ==
    IF text = <<>> THEN Ok(<<>>)
    ELSE LET parsed == fromisoformat(IF text[1].sfx = "Z"
                                     THEN [text[1] EXCEPT !.sfx = "+00:00"]
                                     ELSE text[1])
         IN IF parsed.ok THEN Ok(<<parsed.val>>)
            ELSE HTTPException(400, "INVALID_DATE_FORMAT")

\* routers.news.get_news_list for the query parameters q of a request
router_get_news_list(q, docs) ==
    LET from_date == parse_date(q.from_date)
        to_date == parse_date(q.to_date)
    IN IF ~from_date.ok THEN from_date
       ELSE IF ~to_date.ok THEN to_date
       ELSE LET p == NewsQueryParams([q EXCEPT !.from_date = from_date.val,
                                               !.to_date = to_date.val])
            IN IF p.ok
               THEN handle(get_news_list(p.val, docs))
               ELSE handle(p)

(***************************************************************************)
(* The rate limiter.  `requests` maps an identifier to the list of the     *)
(* times of its recorded requests (a defaultdict(list)).                   *)
(***************************************************************************)
Identifiers == {"api_key:k1", "ip:10.0.0.1"}

\* RateLimiter.__init__
RateLimiter(max_requests, window_seconds) ==
    [max_requests |-> max_requests,
     window_seconds |-> window_seconds,
     requests |-> [identifier \in Identifiers |-> <<>>]]

\* `req_time > window_start`
in_window_always(req_time, window_start) == TRUE

in_window(req_time, window_start) == req_time > window_start

\* `current_count >= self.max_requests`
limit_reached_gt(current_count, max_requests) == current_count > max_requests

limit_reached(current_count, max_requests) == current_count >= max_requests

\* `[req_time for req_time in requests if req_time > window_start]`
recent(requests, window_start) ==
    SelectSeq(requests, LAMBDA req_time : in_window(req_time, window_start))

\* min(list)
min(s) == CHOOSE x \in {s[i] : i \in 1..Len(s)} :
            \A i \in 1..Len(s) : x <= s[i]

max(a, b) == IF a >= b THEN a ELSE b

\* is_allowed from the pruned list on: the limiter it leaves and the tuple
\* it returns (retry_after None is <<>>).
check_limit_record_denied(self, t, identifier, kept) ==
    IF limit_reached(Len(kept), self.max_requests)
    THEN [self |-> [self EXCEPT !.requests[identifier] = Append(kept, t)],
          raised |-> "", allowed |-> FALSE,
          retry_after |-> <<max(min(kept) + self.window_seconds - t, 1)>>]
    ELSE [self |-> [self EXCEPT !.requests[identifier] = Append(kept, t)],
          raised |-> "", allowed |-> TRUE, retry_after |-> <<>>]

check_limit(self, t, identifier, kept) ==
    IF limit_reached(Len(kept), self.max_requests)
    THEN IF kept = <<>>
         THEN [self |-> [self EXCEPT !.requests[identifier] = kept],
               raised |-> "ValueError", allowed |-> FALSE, retry_after |-> <<>>]
         ELSE [self |-> [self EXCEPT !.requests[identifier] = kept],
               raised |-> "", allowed |-> FALSE,
               retry_after |->
                   <<max(min(kept) + self.window_seconds - t, 1)>>]
    ELSE [self |-> [self EXCEPT !.requests[identifier] = Append(kept, t)],
          raised |-> "", allowed |-> TRUE, retry_after |-> <<>>]

\* RateLimiter.is_allowed at time t
is_allowed(self, t, identifier) ==
    check_limit(self, t, identifier,
                recent(self.requests[identifier], t - self.window_seconds))

(***************************************************************************)
(* Documents, requests and the inputs the functions are called with.       *)
(***************************************************************************)
IdTypes == {"ObjectId", "str"}

Limits == 1..MaxLimit

Sources == {Str("text", 1, ""), Str("text", 2, "")}

\* The _id of document i in a collection whose identifiers have type t.
MkId(t, i) == IF t = "ObjectId" THEN ObjectId(i) ELSE Str("hex", i, "")

\* A stored document as the driver returns it; document i was created at
\* instant i.
Doc(id, released, tz, title, source) ==
    [f \in {"_id", "releasedAt", "createdAt", "title", "source"} |->
        CASE f = "_id" -> id
          [] f = "releasedAt" -> Datetime(released, tz)
          [] f = "createdAt" -> Datetime(id.n, tz)
          [] f = "title" -> Str("text", title, "")
          [] f = "source" -> source]

Shapes == (1..MaxTime) \X (1..MaxTitle) \X Sources

Documents(t) ==
    {Doc(MkId(t, i), sh[1], "", sh[2], sh[3]) : i \in 1..MaxDocs, sh \in Shapes}

\* Collections: at most one document per identifier.
Collections(t) ==
    {{Doc(MkId(t, i), f[i][1], "", f[i][2], f[i][3]) :
            i \in {j \in 1..MaxDocs : f[j] # <<>>}} :
        f \in [1..MaxDocs -> Shapes \cup {<<>>}]}

\* NewsQueryParams of a list request.
Params(source, limit, c, sort_by, order) ==
    [from_date |-> <<>>, to_date |-> <<>>, source |-> source,
     asset_slug |-> <<>>, keyword |-> <<>>, limit |-> limit, cursor |-> c,
     sort_by |-> sort_by, order |-> order]

SessionParams ==
    {Params(src, l, <<>>, sf, o) :
        src \in {<<>>, <<Str("text", 1, "")>>}, l \in Limits,
        sf \in SortFields, o \in SortOrders}

\* Field mappings handed to encode: an identifier and a sort-field value,
\* in either insertion order.
IdValues == {MkId(t, i) : t \in IdTypes, i \in 1..MaxDocs}

Instants == 1..(IF MaxTime > MaxDocs THEN MaxTime ELSE MaxDocs)

FieldValues ==
    {Datetime(n, tz) : n \in Instants, tz \in {"", "+00:00", "GMT"}}
    \cup {Str("text", n, "") : n \in 1..MaxTitle}
    \cup {None}

CursorDicts ==
    {Dict(<< <<"_id", id>>, <<f, v>> >>) :
        id \in IdValues, f \in SortFields, v \in FieldValues}
    \cup {Dict(<< <<f, v>>, <<"_id", id>> >>) :
        id \in IdValues, f \in SortFields, v \in FieldValues}

\* Arguments encode cannot serialize: None, and a mapping with the key
\* (1, 2).
Unserializable ==
    {[kind |-> "null", pairs |-> <<>>],
     [kind |-> "tuple-keyed dict",
      pairs |-> << <<"_id", Str("hex", 1, "")>> >>]}

\* Tokens handed to decode.
ObjectTexts ==
    {encode(m).val.text : m \in CursorDicts}
    \cup {Text("object", <<>>),
          Text("object", << <<"_id", Str("hex", 1, "")>> >>),
          Text("object", << <<"releasedAt", Str("iso", 1, "Z")>> >>),
          Text("object", << <<"_id", None>>,
                            <<"releasedAt", Str("iso", 1, "Z")>> >>),
          Text("object", << <<"_id", Str("hex", 1, "")>>,
                            <<"releasedAt", None>> >>),
          Text("object", << <<"title", Str("text", 1, "")>>,
                            <<"_id", Str("hex", 1, "")>>,
                            <<"title", Str("text", 2, "")>> >>)}

OtherTexts ==
    {Text(k, <<>>) : k \in {"array", "empty-array", "number", "string",
                            "null", "not-json", "empty", "not-utf8"}}

Tokens ==
    {Token(t, p, j) : t \in ObjectTexts \cup OtherTexts,
                      p \in BOOLEAN, j \in BOOLEAN}

\* What decode hands to build_cursor_query.
CursorDatas == {decode(t).val : t \in {u \in Tokens : decode(u).ok}}

\* Cursor strings a client sends with a list request: none, the empty
\* string, the cursor of a document, objects lacking a key, JSON that is
\* not an object, and strings that do not decode.
RequestTexts ==
    {json_dumps(Dict(<< <<"_id", Str("hex", i, "")>>, <<f, v>> >>)) :
        i \in {1, MaxDocs}, f \in {"releasedAt", "title"},
        v \in {Str("iso", 1, ""), Str("text", 1, "")}}
    \cup {Text("object", <<>>),
          Text("object", << <<"_id", Str("hex", 1, "")>> >>),
          Text("object", << <<"releasedAt", Str("iso", 1, "")>> >>),
          Text("object", << <<"title", Str("text", 1, "")>> >>)}
    \cup {Text(k, <<>>) : k \in {"array", "empty-array", "number", "string",
                                  "null", "not-json"}}

RequestCursors ==
    {<<>>, <<EmptyToken>>, <<Token(Text("object", <<>>), FALSE, FALSE)>>}
    \cup {<<Token(t, TRUE, FALSE)>> : t \in RequestTexts}

\* Collections a single list request is served from: at most one document
\* per identifier, all of one source and released at the same instant,
\* with the first or the last title.
RequestCollections ==
    UNION {{{Doc(MkId(t, i), 1, "", f[i], Str("text", 1, "")) :
                    i \in {j \in 1..MaxDocs : f[j] # 0}} :
                f \in [1..MaxDocs -> {0, 1, MaxTitle}]} :
            t \in IdTypes}

RequestParams ==
    {Params(src, l, c, sf, o) :
        src \in {<<>>, <<Str("text", 1, "")>>}, l \in Limits,
        c \in RequestCursors, sf \in SortFields, o \in SortOrders}

\* A stored article with the fields the filters read besides those of Doc:
\* subtitle (None when the article has none), content and the slugs of its
\* assets.
Article(doc, subtitle, content, assets) ==
    [f \in DOMAIN doc \cup {"subtitle", "content", "assets"} |->
        CASE f = "subtitle" -> subtitle
          [] f = "content" -> content
          [] f = "assets" -> assets
          [] OTHER -> doc[f]]

Slugs == {Str("slug", 1, ""), Str("slug", 2, "")}

\* Articles that tell the filters apart: <<released, title, subtitle,
\* content, source, asset slugs>>.  Word 1 occurs in the title only, in the
\* subtitle only, in the content only, or nowhere.
FilterShapes ==
    {<<1, 1, None, 2, 1, <<Str("slug", 1, "")>> >>,
     <<MaxTime, 2, Str("text", 1, ""), 2, 1,
       <<Str("slug", 2, ""), Str("slug", 1, "")>> >>,
     <<1, 2, None, 1, 2, <<>> >>,
     <<MaxTime, 2, Str("text", 2, ""), 2, 1, <<Str("slug", 2, "")>> >>}

\* Collections a filtered list request is served from.
FilterCollections ==
    {{Article(Doc(MkId("str", i), f[i][1], "", f[i][2],
                  Str("text", f[i][5], "")),
              f[i][3], Str("text", f[i][4], ""), f[i][6]) :
            i \in {j \in 1..MaxDocs : f[j] # <<>>}} :
        f \in [1..MaxDocs -> FilterShapes \cup {<<>>}]}

\* from_date / to_date pairs that pass validation (to_date not earlier).
DateRanges ==
    {<< <<>>, <<>> >>,
     << <<Datetime(MaxTime, "+00:00")>>, <<>> >>,
     << <<>>, <<Datetime(1, "+00:00")>> >>,
     << <<Datetime(1, "+00:00")>>, <<Datetime(MaxTime, "+00:00")>> >>}

\* The keyword as stored texts write it, and in the other letter case.
Keywords == {Str("word", 1, ""), Str("word", 1, "upper")}

\* List requests with filters, without a cursor and with the cursor of
\* the second document.
FilterParams ==
    {[Params(src, MaxLimit, c, "releasedAt", o) EXCEPT
            !.from_date = dr[1], !.to_date = dr[2],
            !.asset_slug = slug, !.keyword = kw] :
        src \in {<<>>, <<Str("text", 1, "")>>},
        c \in {<<>>,
               <<b64encode(json_dumps(Dict(
                    << <<"_id", Str("hex", 2, "")>>,
                       <<"releasedAt", Str("iso", 1, "")>> >>)))>>},
        o \in SortOrders, dr \in DateRanges,
        slug \in {<<>>, <<Str("slug", 1, "")>>},
        kw \in {<<>>} \cup {<<k>> : k \in Keywords}}

\* Date strings of a query: a past instant, the present one, a future one
\* and text that is no date.
DateTexts ==
    {<<>>, <<Str("iso", 1, "")>>, <<Str("iso", MaxTime, "Z")>>,
     <<Str("iso", MaxTime + 1, "")>>, <<Str("text", 1, "")>>}

\* Query parameters as the client sends them: dates as text, any string
\* for sort_by and order, no cursor or a cursor that is or is not valid.
QueryParams ==
    {[Params(<<>>, 1, c, sf, o) EXCEPT !.from_date = fd, !.to_date = td] :
        c \in {<<>>,
               <<Token(Text("not-json", <<>>), TRUE, FALSE)>>,
               <<b64encode(json_dumps(Dict(
                    << <<"_id", Str("hex", 2, "")>>,
                       <<"releasedAt", Str("iso", 1, "")>> >>)))>>},
        sf \in {"releasedAt", "popularity"}, o \in {"desc", "sideways"},
        fd \in DateTexts, td \in DateTexts}

\* Item lists handed to create_pagination_response: item i has _id i and
\* the released instant and title f[i] gives it.
ItemShapes == (1..MaxTime) \X (1..MaxTitle)

ItemList(n, t, tz, f) ==
    [i \in 1..n |-> Doc(MkId(t, i), f[i][1], tz, f[i][2], Str("text", 1, ""))]

(***************************************************************************)
(* Calls of the codec, the builder and the assembler.                      *)
(***************************************************************************)
Idle ==
    /\ collection = {}
    /\ params = Params(<<>>, 1, <<>>, "releasedAt", "desc")
    /\ cursor = <<>>
    /\ pages = <<>>
    /\ stable = {}
    /\ used = {}
    /\ id_type = "ObjectId"
    /\ pc = "idle"

\* The request handlers (dispatch tasks) of the event loop.
Handlers == 1..MaxHandlers

\* A task before its request arrives.
Waiting == [pc |-> "idle", identifier |-> "", at |-> 0]

\* No request is being handled.
NoTasks ==
    /\ tasks = [h \in Handlers |-> Waiting]
    /\ running = 0

\* No rate limiter at work.
Unlimited ==
    /\ limiter = RateLimiter(1, 1)
    /\ now = 0
    /\ history = <<>>
    /\ NoTasks

limiting == <<limiter, now, history, tasks, running>>

InitCalls ==
    /\ Idle
    /\ Unlimited
    /\ call = [op |-> "none", args |-> <<>>]
    /\ ret = Ok(None)

session == <<collection, params, cursor, pages, stable, used, id_type, pc>>

Encode(m) ==
    /\ call.op = "none"
    /\ call' = [op |-> "encode", args |-> <<m>>]
    /\ ret' = encode(m)
    /\ UNCHANGED <<session, limiting>>

Decode(token) ==
    /\ call.op = "none"
    /\ call' = [op |-> "decode", args |-> <<token>>]
    /\ ret' = decode(token)
    /\ UNCHANGED <<session, limiting>>

BuildCursorQuery(cursor_data, sort_field, sort_order) ==
    /\ call.op = "none"
    /\ call' = [op |-> "build_cursor_query",
                args |-> <<cursor_data, sort_field, sort_order>>]
    /\ ret' = build_cursor_query(cursor_data, sort_field, sort_order)
    /\ UNCHANGED <<session, limiting>>

CreatePaginationResponse(items, limit, sort_field, has_prev) ==
    /\ call.op = "none"
    /\ call' = [op |-> "create_pagination_response",
                args |-> <<items, limit, sort_field, has_prev>>]
    /\ ret' = create_pagination_response(items, limit, sort_field, has_prev)
    /\ UNCHANGED <<session, limiting>>

GetNewsList(p, docs) ==
    /\ call.op = "none"
    /\ call' = [op |-> "get_news_list", args |-> <<p, docs>>]
    /\ ret' = get_news_list(p, docs)
    /\ UNCHANGED <<session, limiting>>

RouterGetNewsList(p, docs) ==
    /\ call.op = "none"
    /\ call' = [op |-> "GET /news", args |-> <<p, docs>>]
    /\ ret' = router_get_news_list(p, docs)
    /\ UNCHANGED <<session, limiting>>

NextCalls ==
    \/ call.op = "none" /\ \E m \in CursorDicts \cup Unserializable : Encode(m)
    \/ call.op = "none" /\ \E token \in Tokens : Decode(token)
    \/ call.op = "none" /\
            \E cd \in CursorDatas, sf \in SortFields, o \in SortOrders :
                BuildCursorQuery(cd, sf, o)
    \/ call.op = "none" /\
            \E n \in 0..MaxItems, t \in IdTypes, tz \in {"", "+00:00"},
               l \in Limits, sf \in SortFields, hp \in BOOLEAN :
                \E f \in [1..n -> ItemShapes] :
                    CreatePaginationResponse(ItemList(n, t, tz, f), l, sf, hp)
    \/ call.op = "none" /\
            \E p \in RequestParams, docs \in RequestCollections :
                GetNewsList(p, docs)
    \/ call.op = "none" /\
            \E p \in FilterParams, docs \in FilterCollections :
                GetNewsList(p, docs)
    \/ call.op = "none" /\
            \E p \in RequestParams, docs \in RequestCollections :
                RouterGetNewsList(p, docs)
    \/ call.op = "none" /\
            \E q \in QueryParams,
               docs \in {{}, {Doc(MkId("str", i), 1, "", 1, Str("text", 1, "")) :
                                i \in 1..MaxDocs}} :
                RouterGetNewsList(q, docs)

SpecCalls == InitCalls /\ [][NextCalls]_vars

(***************************************************************************)
(* A paging session: the client requests the first page without a cursor   *)
(* and then passes back each next_cursor until has_next is false.  Other   *)
(* clients of the collection insert and delete documents between the page  *)
(* requests; an inserted document gets an identifier never used before.    *)
(***************************************************************************)
Init ==
    /\ id_type \in IdTypes
    /\ collection \in Collections(id_type)
    /\ params \in SessionParams
    /\ cursor = <<>>
    /\ pages = <<>>
    /\ stable = collection
    /\ used = {d["_id"] : d \in collection}
    /\ pc = "start"
    /\ call = [op |-> "none", args |-> <<>>]
    /\ ret = Ok(None)
    /\ Unlimited

\* One list request of the session, carrying cursor c.
Serve(c) ==
    \E r \in {get_news_list([params EXCEPT !.cursor = c], collection)} :
        /\ r.ok
        /\ pages' = Append(pages, [i \in 1..Len(r.val.items) |->
                                     r.val.items[i]["_id"]])
        /\ cursor' = r.val.pagination.next_cursor
        /\ pc' = IF r.val.pagination.has_next THEN "paging" ELSE "done"
        /\ call' = [op |-> "page", args |-> <<c>>]
        /\ ret' = r
        /\ UNCHANGED <<collection, params, stable, used, id_type, limiting>>

FirstPage == pc = "start" /\ Serve(<<>>)

NextPage == pc = "paging" /\ Serve(cursor)

Insert(d) ==
    /\ pc = "paging"
    /\ d["_id"] \notin used
    /\ collection' = collection \cup {d}
    /\ used' = used \cup {d["_id"]}
    /\ UNCHANGED <<params, cursor, pages, stable, id_type, pc, call, ret,
                   limiting>>

Delete(d) ==
    /\ pc = "paging"
    /\ d \in collection
    /\ collection' = collection \ {d}
    /\ stable' = stable \ {d}
    /\ UNCHANGED <<params, cursor, pages, used, id_type, pc, call, ret,
                   limiting>>

\* The session over a collection that does not change.
NextStatic == FirstPage \/ NextPage

SpecStatic == Init /\ [][NextStatic]_vars

\* The session over collections whose documents were released at the
\* first or the last instant and carry the first or the last title.
FollowCollections(t) ==
    {{Doc(MkId(t, i), f[i][1], "", f[i][2], Str("text", 1, "")) :
            i \in {j \in 1..MaxDocs : f[j] # <<>>}} :
        f \in [1..MaxDocs -> ({1, MaxTime} \X {1, MaxTitle}) \cup {<<>>}]}

InitFollow ==
    /\ id_type \in IdTypes
    /\ collection \in FollowCollections(id_type)
    /\ params \in SessionParams
    /\ cursor = <<>>
    /\ pages = <<>>
    /\ stable = collection
    /\ used = {d["_id"] : d \in collection}
    /\ pc = "start"
    /\ call = [op |-> "none", args |-> <<>>]
    /\ ret = Ok(None)
    /\ Unlimited

SpecFollow == InitFollow /\ [][NextStatic]_vars

\* The client passes back the prev_cursor of the page it received last,
\* with the sort field and order of the session, and stops.
PrevPage ==
    /\ pc \in {"paging", "done"}
    /\ ret.val.pagination.prev_cursor # <<>>
    /\ call' = [op |-> "back", args |-> <<ret.val.pagination.prev_cursor>>]
    /\ ret' = get_news_list(
                [params EXCEPT !.cursor = ret.val.pagination.prev_cursor],
                collection)
    /\ pc' = "back"
    /\ UNCHANGED <<collection, params, cursor, pages, stable, used, id_type,
                   limiting>>

NextBack == FirstPage \/ NextPage \/ PrevPage

SpecBack == Init /\ [][NextBack]_vars

Next ==
    \/ FirstPage
    \/ NextPage
    \/ \E d \in Documents(id_type) : Insert(d)
    \/ \E d \in collection : Delete(d)

Spec == Init /\ [][Next]_vars

(***************************************************************************)
(* The rate limiter at work: handlers call is_allowed for their            *)
(* identifiers while the clock advances.  A call runs without              *)
(* interruption (it has no await).                                         *)
(***************************************************************************)
InitLimiter ==
    /\ Idle
    /\ call = [op |-> "none", args |-> <<>>]
    /\ ret = Ok(None)
    /\ limiter \in {RateLimiter(m, w) : m \in 1..MaxRequests, w \in 1..MaxWindow}
    /\ now = 0
    /\ history = <<>>
    /\ NoTasks

IsAllowed(identifier) ==
    /\ Len(history) < MaxCalls
    /\ \E r \in {is_allowed(limiter, now, identifier)} :
            /\ limiter' = r.self
            /\ history' = Append(history,
                    [identifier |-> identifier, at |-> now,
                     raised |-> r.raised, allowed |-> r.allowed,
                     retry_after |-> r.retry_after])
    /\ UNCHANGED <<session, call, ret, now, tasks, running>>

Tick ==
    /\ now < MaxNow
    /\ now' = now + 1
    /\ UNCHANGED <<session, call, ret, limiter, history, tasks, running>>

NextLimiter ==
    \/ \E identifier \in Identifiers : IsAllowed(identifier)
    \/ Tick

SpecLimiter == InitLimiter /\ [][NextLimiter]_vars

(***************************************************************************)
(* Concurrent request handlers.  Each request is a task of one event loop  *)
(* running RateLimitMiddleware.dispatch; the tasks share the middleware's  *)
(* RateLimiter.  A task keeps the event loop from one await to the next:   *)
(* is_allowed and get_usage are plain calls, `await call_next(request)` is *)
(* the only await of dispatch.  The statements of is_allowed are separate  *)
(* steps.                                                                  *)
(***************************************************************************)
\* Whether a task gives up the event loop before the step: only
\* `await call_next(request)` does.
awaits_every(step) == TRUE

awaits(step) == step = "call_next"

\* The holder of the event loop once handler h has moved on to the step.
holds(h, step) == IF awaits(step) THEN 0 ELSE h

\* Handler h moves on to the step.
goto(h, step) ==
    /\ tasks' = [tasks EXCEPT ![h].pc = step]
    /\ running' = holds(h, step)

\* dispatch is entered for a request of the identifier and calls
\* is_allowed, which reads the clock.
Arrive(h, identifier) ==
    /\ running = 0
    /\ tasks[h].pc = "idle"
    /\ tasks' = [tasks EXCEPT ![h] = [pc |-> "prune",
                                      identifier |-> identifier, at |-> now]]
    /\ running' = holds(h, "prune")
    /\ UNCHANGED <<session, call, ret, limiter, now, history>>

\* dispatch is entered for a health check, which is not rate limited.
Skip(h) ==
    /\ running = 0
    /\ tasks[h].pc = "idle"
    /\ goto(h, "call_next")
    /\ UNCHANGED <<session, call, ret, limiter, now, history>>

\* `self.requests[identifier] = [...]`: the old requests are removed.
Prune(h) ==
    /\ running \in {0, h}
    /\ tasks[h].pc = "prune"
    /\ limiter' = [limiter EXCEPT !.requests[tasks[h].identifier] =
                        recent(@, tasks[h].at - limiter.window_seconds)]
    /\ goto(h, "check")
    /\ UNCHANGED <<session, call, ret, now, history>>

\* `if current_count >= self.max_requests`: a denied request is answered
\* 429 and the task ends.
Check(h) ==
    /\ running \in {0, h}
    /\ tasks[h].pc = "check"
    /\ LET requests == limiter.requests[tasks[h].identifier]
       IN IF limit_reached(Len(requests), limiter.max_requests)
          THEN /\ history' = Append(history,
                    [identifier |-> tasks[h].identifier, at |-> tasks[h].at,
                     raised |-> "", allowed |-> FALSE,
                     retry_after |->
                        <<max(min(requests) + limiter.window_seconds
                                - tasks[h].at, 1)>>])
               /\ tasks' = [tasks EXCEPT ![h].pc = "done"]
               /\ running' = 0
          ELSE /\ goto(h, "record")
               /\ UNCHANGED history
    /\ UNCHANGED <<session, call, ret, limiter, now>>

\* `self.requests[identifier].append(now)`, the return of is_allowed and
\* get_usage, which changes nothing.
Record(h) ==
    /\ running \in {0, h}
    /\ tasks[h].pc = "record"
    /\ limiter' = [limiter EXCEPT !.requests[tasks[h].identifier] =
                        Append(@, tasks[h].at)]
    /\ history' = Append(history,
            [identifier |-> tasks[h].identifier, at |-> tasks[h].at,
             raised |-> "", allowed |-> TRUE, retry_after |-> <<>>])
    /\ goto(h, "call_next")
    /\ UNCHANGED <<session, call, ret, now>>

\* call_next returns and dispatch returns the response.
Respond(h) ==
    /\ running = 0
    /\ tasks[h].pc = "call_next"
    /\ tasks' = [tasks EXCEPT ![h].pc = "done"]
    /\ UNCHANGED <<session, call, ret, limiter, now, history, running>>

NextHandlers ==
    \/ \E h \in Handlers, identifier \in Identifiers : Arrive(h, identifier)
    \/ \E h \in Handlers : Skip(h)
    \/ \E h \in Handlers : Prune(h)
    \/ \E h \in Handlers : Check(h)
    \/ \E h \in Handlers : Record(h)
    \/ \E h \in Handlers : Respond(h)
    \/ Tick

SpecHandlers == InitLimiter /\ [][NextHandlers]_vars

(***************************************************************************)
(* Properties of a paging session.                                         *)
(***************************************************************************)
\* The documents the session's filter selects.
Selected(docs) ==
    {d \in docs : params.source = <<>> \/ d["source"] = params.source[1]}

\* The identifiers, as the client sees them, of the selected documents in
\* (sort field, _id) order of the requested direction.
Ordered(docs) ==
    LET dir == IF params.order = "asc" THEN 1 ELSE -1
        sorted == SortDocs(Selected(docs),
                           << <<params.sort_by, dir>>, <<"_id", dir>> >>)
    IN [i \in 1..Len(sorted) |-> py_str(sorted[i]["_id"])]

RECURSIVE Flatten(_)
Flatten(ss) == IF ss = <<>> THEN <<>> ELSE Head(ss) \o Flatten(Tail(ss))

Range(s) == {s[i] : i \in 1..Len(s)}

\* C1: over a collection that does not change, page k of a session is
\* exactly the k-th run of `limit` documents of the selected documents in
\* (sort field, _id) order: nothing is repeated and nothing between two
\* consecutive pages is skipped, ties of the sort field included.
C1_PagesAreConsecutive ==
    \A k \in 1..Len(pages) :
        pages[k] = SubSeq(Ordered(collection),
                          (k - 1) * params.limit + 1,
                          IF k * params.limit < Len(Ordered(collection))
                          THEN k * params.limit
                          ELSE Len(Ordered(collection)))

\* C2: while other requests insert and delete documents, no document is
\* returned on two pages, and once has_next is false every selected
\* document that was in the collection for the whole session has been
\* returned.
C2_StableDocumentsExactlyOnce ==
    /\ \A i, j \in 1..Len(Flatten(pages)) :
            i # j => Flatten(pages)[i] # Flatten(pages)[j]
    /\ pc = "done" =>
            \A d \in Selected(stable) :
                py_str(d["_id"]) \in Range(Flatten(pages))

(***************************************************************************)
(* Properties of the cursor query builder.                                 *)
(***************************************************************************)
\* The decoded cursor a client holds for document c under sort field f.
CursorOf(c, f) == decode(item_cursor(c, f).val).val

\* C3: for order "desc" and the cursor of a document with id B and sort
\* value T, the predicate matches a document iff its sort value is less
\* than T, or equals T with an id less than B.
C3_DescendingPredicate ==
    \A t \in IdTypes, f \in SortFields :
        \A c \in Documents(t) :
            (/\ call.op = "build_cursor_query"
             /\ call.args = <<CursorOf(c, f), f, "desc">>)
            => /\ ret.ok
               /\ \A d \in Documents(t) :
                    Matches(ret.val, d) <=>
                        \/ BsonLess(d[f], c[f])
                        \/ d[f] = c[f] /\ BsonLess(d["_id"], c["_id"])

\* C4: for order "asc" and the cursor of a document with id B and sort
\* value T, the predicate matches a document iff its sort value is greater
\* than T, or equals T with an id greater than B.
C4_AscendingPredicate ==
    \A t \in IdTypes, f \in SortFields :
        \A c \in Documents(t) :
            (/\ call.op = "build_cursor_query"
             /\ call.args = <<CursorOf(c, f), f, "asc">>)
            => /\ ret.ok
               /\ \A d \in Documents(t) :
                    Matches(ret.val, d) <=>
                        \/ BsonLess(c[f], d[f])
                        \/ d[f] = c[f] /\ BsonLess(c["_id"], d["_id"])

\* C16: build_cursor_query returns the empty predicate, and raises no
\* error, whenever the decoded cursor (a mapping) is empty, lacks the
\* identifier key, or lacks the key of the requested sort field.
C16_IncompleteCursorEmptyPredicate ==
    (/\ call.op = "build_cursor_query"
     /\ call.args[1].kind = "dict"
     /\ \/ call.args[1].pairs = <<>>
        \/ "_id" \notin Keys(call.args[1])
        \/ call.args[2] \notin Keys(call.args[1]))
    => ret = Ok({})

C16_Witness ==
    /\ call.op = "build_cursor_query"
    /\ call.args[1].kind = "dict"
    /\ Keys(call.args[1]) = {"_id"}
    /\ ~falsy(Get(call.args[1], "_id"))
    /\ ret = Ok({})

(***************************************************************************)
(* Properties of the page assembler.                                       *)
(***************************************************************************)
IsAssembly == call.op = "create_pagination_response"

\* The token that encodes the id and the sort-field value of one item.
TokenOf(item, f) ==
    encode(Dict(<< <<"_id", py_str(item["_id"])>>, <<f, item[f]>> >>)).val

\* C5: more documents than limit: has_next, returned = limit, and
\* next_cursor encodes the limit-th document.
C5_OverflowTrimmed ==
    (IsAssembly /\ Len(call.args[1]) > call.args[2])
    => /\ ret.ok
       /\ ret.val.has_next = TRUE
       /\ ret.val.returned = call.args[2]
       /\ ret.val.next_cursor =
            <<TokenOf(call.args[1][call.args[2]], call.args[3])>>

C5_Witness ==
    /\ IsAssembly
    /\ Len(call.args[1]) = call.args[2] + 1
    /\ ret.ok
    /\ ret.val.has_next
    /\ TokenOf(call.args[1][call.args[2]], call.args[3])
         # TokenOf(call.args[1][call.args[2] + 1], call.args[3])

\* C6: at most limit documents (exactly limit included): no next page, no
\* next_cursor, returned = the number of documents.
C6_NoOverflow ==
    (IsAssembly /\ Len(call.args[1]) <= call.args[2])
    => /\ ret.ok
       /\ ret.val.has_next = FALSE
       /\ ret.val.next_cursor = <<>>
       /\ ret.val.returned = Len(call.args[1])

C6_Witness ==
    /\ IsAssembly
    /\ Len(call.args[1]) = call.args[2]
    /\ ret.ok
    /\ ~ret.val.has_next

\* C7: no documents: returned = 0, no next page and both cursors null,
\* for every limit and either has_prev.
C7_EmptyResult ==
    (IsAssembly /\ call.args[1] = <<>>)
    => /\ ret.ok
       /\ ret.val.returned = 0
       /\ ret.val.has_next = FALSE
       /\ ret.val.next_cursor = <<>>
       /\ ret.val.prev_cursor = <<>>

C7_Witness ==
    /\ IsAssembly
    /\ call.args[1] = <<>>
    /\ call.args[4] = TRUE
    /\ ret.ok
    /\ ret.val.returned = 0

\* C13: prev_cursor encodes the id and the sort-field value of the first
\* returned document when the caller's has_prev is true and the trimmed
\* page is not empty, and is null otherwise; has_prev is returned as the
\* caller gave it.
C13_PrevCursor ==
    IsAssembly
    => /\ ret.ok
       /\ ret.val.has_prev = call.args[4]
       /\ ret.val.prev_cursor =
            IF call.args[4] /\ Take(call.args[1], call.args[2]) # <<>>
            THEN <<TokenOf(call.args[1][1], call.args[3])>>
            ELSE <<>>

C13_Witness ==
    /\ IsAssembly
    /\ call.args[4] = TRUE
    /\ Len(call.args[1]) > call.args[2]
    /\ call.args[2] > 1
    /\ ret.ok
    /\ ret.val.prev_cursor = <<TokenOf(call.args[1][1], call.args[3])>>
    /\ ret.val.prev_cursor # ret.val.next_cursor

(***************************************************************************)
(* Properties of the cursor codec.                                         *)
(***************************************************************************)
\* The canonical string form of a value: ISO-8601 text with a zero offset
\* written "Z" for a temporal value, the string representation otherwise.
Canonical(v) ==
    IF v.type = "datetime"
    THEN Str("iso", v.n, IF v.sfx \in {"+00:00", "GMT"} THEN "Z" ELSE v.sfx)
    ELSE py_str(v)

CanonicalMapping(m) == [k \in Keys(m) |-> Canonical(Get(m, k))]

\* encode was called with a field mapping.
EncodesMapping == call.op = "encode" /\ call.args[1].kind = "dict"

\* C8: decode(encode(m)) is the mapping with the keys of m and the
\* canonical string forms of its values.
C8_RoundTrip ==
    EncodesMapping
    => /\ ret.ok
       /\ decode(ret.val).ok
       /\ decode(ret.val).val.kind = "dict"
       /\ AsMapping(decode(ret.val).val) = CanonicalMapping(call.args[1])

C8_Witness ==
    /\ call.op = "encode"
    /\ ret.ok
    /\ \E i \in 1..Len(call.args[1].pairs) :
            /\ call.args[1].pairs[i][2].type = "datetime"
            /\ call.args[1].pairs[i][2].sfx = "+00:00"
    /\ AsMapping(decode(ret.val).val) = CanonicalMapping(call.args[1])

\* C9: mappings with the same keys and the same canonical values encode
\* to the same token, whatever the order their keys were inserted in.
C9_Deterministic ==
    EncodesMapping
    => \A m \in CursorDicts :
            CanonicalMapping(m) = CanonicalMapping(call.args[1])
            => encode(m) = ret

C9_Witness ==
    /\ call.op = "encode"
    /\ ret.ok
    /\ \E m \in CursorDicts :
            /\ m.pairs # call.args[1].pairs
            /\ Keys(m) = Keys(call.args[1])
            /\ m.pairs[1][1] # call.args[1].pairs[1][1]
            /\ CanonicalMapping(m) = CanonicalMapping(call.args[1])
            /\ encode(m) = ret

\* Two values that denote the same instant and differ at most in how the
\* zero UTC offset is written.
ZeroOffset(v) == v.type = "datetime" /\ v.sfx \in {"+00:00", "GMT"}

SameInstant(v, w) ==
    \/ v = w
    \/ ZeroOffset(v) /\ ZeroOffset(w) /\ v.n = w.n

\* The text encode wrote for key k.
Written(token, k) == Get(decode(token).val, k)

\* C17: encode writes a temporal value in one canonical text form: inputs
\* that denote the same instant and differ only in how the zero UTC offset
\* is written yield identical text, and a zero offset is always written
\* "Z", never "+00:00".
C17_CanonicalTemporalText ==
    EncodesMapping
    => /\ ret.ok
       /\ \A k \in Keys(call.args[1]) :
            LET v == Get(call.args[1], k)
            IN v.type = "datetime"
               => /\ Written(ret.val, k).form = "iso"
                  /\ Written(ret.val, k).n = v.n
                  /\ Written(ret.val, k).sfx # "+00:00"
                  /\ ZeroOffset(v) => Written(ret.val, k).sfx = "Z"
       /\ \A m \in CursorDicts :
            (/\ Keys(m) = Keys(call.args[1])
             /\ \A k \in Keys(m) :
                    SameInstant(Get(m, k), Get(call.args[1], k)))
            => encode(m) = ret

C17_Witness ==
    /\ call.op = "encode"
    /\ ret.ok
    /\ Get(call.args[1], "releasedAt") = Datetime(1, "GMT")
    /\ Written(ret.val, "releasedAt") = Str("iso", 1, "Z")
    /\ \E m \in CursorDicts :
            /\ Get(m, "releasedAt") = Datetime(1, "+00:00")
            /\ Get(m, "_id") = Get(call.args[1], "_id")
            /\ Keys(m) = Keys(call.args[1])
            /\ encode(m) = ret

\* A token is valid base64 when it has only alphabet characters, correctly
\* padded.
ValidBase64(token) == token.padok /\ ~token.junk

\* C10: decode raises InvalidCursorException for a token that is not valid
\* base64, for one whose bytes are not JSON, and for the empty string.
C10_InvalidTokensRejected ==
    (/\ call.op = "decode"
     /\ \/ ~ValidBase64(call.args[1])
        \/ call.args[1].text.kind \in {"not-json", "empty", "not-utf8"}
        \/ call.args[1] = EmptyToken)
    => ~ret.ok /\ ret.exc = "InvalidCursorException"

\* C11: decode either raises InvalidCursorException or returns a mapping
\* from field names to values; a token whose payload is well-formed JSON
\* but not an object (an array, a number, a string, null) is rejected.
C11_OnlyMappingsReturned ==
    call.op = "decode"
    => \/ ~ret.ok /\ ret.exc = "InvalidCursorException"
       \/ ret.ok /\ ret.val.kind = "dict"

(***************************************************************************)
(* Properties of the GET /news handler.                                    *)
(***************************************************************************)
\* C12: for every cursor string a client supplies, the handler either
\* answers successfully or raises the 400 INVALID_CURSOR error; no other
\* exception leaves the handler.
C12_CursorErrorsAnswered ==
    call.op = "GET /news"
    => \/ ret.ok
       \/ ret = HTTPException(400, "INVALID_CURSOR")

(***************************************************************************)
(* Properties of one list request of the query service.                    *)
(***************************************************************************)
IsRequest == call.op = "get_news_list"

\* The request carried a cursor parameter that is not the empty string.
CursorSupplied == call.args[1].cursor \notin {<<>>, <<EmptyToken>>}

C15_NoCursorQueryIsFilter ==
    /\ (IsRequest /\ ~CursorSupplied)
       => /\ ret.ok
          /\ ret.val.query = _build_query(call.args[1])
          /\ \A c \in ret.val.query : c.key # "$and"
    /\ (call.op = "build_cursor_query" /\ call.args[1] = Dict(<<>>))
       => ret = Ok({})

C15_Witness ==
    /\ IsRequest
    /\ call.args[1].cursor = <<>>
    /\ call.args[1].source = <<Str("text", 1, "")>>
    /\ call.args[2] # {}
    /\ ret.ok
    /\ ret.val.query = {Cond("source", "$eq", Str("text", 1, ""))}
    /\ ret.val.items # <<>>

\* Item a comes strictly before item b in (field f, _id) order of
\* direction o.
Before(a, b, f, o) ==
    IF o = "asc"
    THEN \/ BsonLess(a[f], b[f])
         \/ a[f] = b[f] /\ BsonLess(a["_id"], b["_id"])
    ELSE \/ BsonLess(b[f], a[f])
         \/ a[f] = b[f] /\ BsonLess(b["_id"], a["_id"])

\* C20: get_news_list sorts by the requested sort field and then by _id in
\* the same direction, for every sort field and both orders: the returned
\* documents are totally ordered, ties of the sort field included, in the
\* order the cursor predicate assumes.
C20_SortedWithIdTieBreak ==
    /\ (IsRequest /\ ret.ok)
       => \A i, j \in 1..Len(ret.val.items) :
            i < j => Before(ret.val.items[i], ret.val.items[j],
                            call.args[1].sort_by, call.args[1].order)
    /\ (call.op = "build_cursor_query" /\ ret.ok /\ ret.val # {})
       => \A c \in ret.val :
            /\ c.key = "$or"
            /\ \A t \in c.subs[2] :
                    t.key = "_id" =>
                        t.op = IF _build_sort_criteria(call.args[2],
                                                       call.args[3])[2][2] = 1
                               THEN "$gt" ELSE "$lt"

C20_Witness ==
    /\ IsRequest
    /\ ret.ok
    /\ call.args[1].order = "desc"
    /\ call.args[1].sort_by = "title"
    /\ Len(ret.val.items) = 2
    /\ ret.val.items[1]["title"] = ret.val.items[2]["title"]
    /\ BsonLess(ret.val.items[2]["_id"], ret.val.items[1]["_id"])
    /\ \E d \in call.args[2] : d["title"] # ret.val.items[1]["title"]

(***************************************************************************)
(* Properties of the rate limiter.                                         *)
(***************************************************************************)
\* The allowed calls of call i's identifier, before call i, that lie
\* within the window_seconds preceding call i.
AllowedBefore(i) ==
    {j \in 1..(i - 1) :
        /\ history[j].identifier = history[i].identifier
        /\ history[j].allowed
        /\ history[j].at > history[i].at - limiter.window_seconds}

\* C18: a call is allowed iff fewer than max_requests previously allowed
\* calls of its identifier lie within the preceding window_seconds; an
\* allowed call returns (True, None), a denied one False with a
\* retry_after of at least 1, and never more than max_requests calls of
\* one identifier are allowed within any window.
C18_AllowedIffBelowLimit ==
    \A i \in 1..Len(history) :
        /\ history[i].raised = ""
        /\ history[i].allowed
            <=> Cardinality(AllowedBefore(i)) < limiter.max_requests
        /\ history[i].allowed => history[i].retry_after = <<>>
        /\ ~history[i].allowed
            => /\ history[i].retry_after # <<>>
               /\ history[i].retry_after[1] >= 1
        /\ Cardinality(AllowedBefore(i)) <= limiter.max_requests

C18_Witness ==
    \E i \in 1..Len(history) :
        /\ limiter.max_requests > 1
        /\ limiter.window_seconds > 1
        /\ ~history[i].allowed
        /\ history[i].retry_after = <<1>>
        /\ Cardinality(AllowedBefore(i)) = limiter.max_requests
        /\ \E j \in 1..(i - 1) :
                /\ history[j].identifier # history[i].identifier
                /\ history[j].allowed
        /\ \E j \in 1..(i - 1) :
                /\ history[j].identifier = history[i].identifier
                /\ history[j].at < history[i].at

\* C19: an identifier that has been blocked is allowed again once
\* window_seconds have passed since its recorded requests: the expired
\* requests no longer count and the next call returns True.
C19_AllowedAfterWindow ==
    \A i \in 1..Len(history) :
        (\A j \in 1..(i - 1) :
            (/\ history[j].identifier = history[i].identifier
             /\ history[j].allowed)
            => history[j].at + limiter.window_seconds <= history[i].at)
        => history[i].allowed /\ history[i].retry_after = <<>>

C19_Witness ==
    \E i \in 1..Len(history) :
        /\ history[i].allowed
        /\ \E j \in 1..(i - 1) :
                /\ history[j].identifier = history[i].identifier
                /\ ~history[j].allowed
                /\ history[i].at = history[j].at + limiter.window_seconds
        /\ \A j \in 1..(i - 1) :
                (/\ history[j].identifier = history[i].identifier
                 /\ history[j].allowed)
                => history[j].at + limiter.window_seconds <= history[i].at

(***************************************************************************)
(* Properties of the query a list request sends.                           *)
(***************************************************************************)
\* The documents the collection hands back for a logged find call.
Fetched(docs, f) ==
    str_ids(project(find(docs, f.query, f.sort, f.limit),
                    _get_list_projection))

\* C21: get_news_list asks the collection for limit + 1 documents and
\* returns at most `limit` of them: the returned list is the first `limit`
\* documents fetched, in fetched order, and pagination.returned is its
\* length.
C21_OverFetchByOne ==
    (IsRequest /\ ret.ok) =>
        LET p == call.args[1]
            fetched == Fetched(call.args[2], ret.finds[1])
        IN /\ ret.finds[1].limit = p.limit + 1
           /\ Len(ret.val.items) <= p.limit
           /\ ret.val.items =
                    [i \in 1..(IF Len(fetched) < p.limit
                               THEN Len(fetched) ELSE p.limit) |-> fetched[i]]
           /\ ret.val.pagination.returned = Len(ret.val.items)

\* A request whose find call came back with limit + 1 documents.
C21_Witness ==
    /\ IsRequest
    /\ ret.ok
    /\ call.args[1].limit = MaxLimit
    /\ Len(Fetched(call.args[2], ret.finds[1])) = MaxLimit + 1
    /\ Len(ret.val.items) = MaxLimit

\* C24: a list request issues at most one query to the collection, a find
\* and never a count: one find when it succeeds, none when the cursor is
\* rejected.
C24_AtMostOneFind ==
    IsRequest =>
        /\ Len(ret.finds) <= 1
        /\ \A i \in 1..Len(ret.finds) : ret.finds[i].op = "find"
        /\ ret.ok => Len(ret.finds) = 1
        /\ (~ret.ok /\ ret.exc = "InvalidCursorException") => ret.finds = <<>>

\* A filtered request refused for its cursor.
C24_Witness ==
    /\ IsRequest
    /\ call.args[1].source # <<>>
    /\ CursorSupplied
    /\ ~ret.ok
    /\ ret.exc = "InvalidCursorException"
    /\ ret.finds = <<>>

\* What the filters of a request ask of a document, read off the request.
InRange(p, d) ==
    /\ p.from_date = <<>> \/ d["releasedAt"].n >= p.from_date[1].n
    /\ p.to_date = <<>> \/ d["releasedAt"].n <= p.to_date[1].n

HasSlug(p, d) ==
    p.asset_slug = <<>> \/
        \E i \in 1..Len(item_get(d, "assets")) : d["assets"][i] = p.asset_slug[1]

Mentions(p, d) ==
    p.keyword = <<>> \/
        \E f \in {"title", "subtitle", "content"} :
            /\ item_get(d, f).type = "str"
            /\ item_get(d, f).n = p.keyword[1].n

Satisfies(p, d) ==
    /\ InRange(p, d)
    /\ p.source = <<>> \/ d["source"] = p.source[1]
    /\ HasSlug(p, d)
    /\ Mentions(p, d)

IsTimestamp(v) == v.form = "iso" /\ v.sfx \in {"", "+00:00", "Z"}

\* The instant such a string denotes.
InstantOf(v) == Datetime(v.n, IF v.sfx = "" THEN "" ELSE "+00:00")

\* The call hands build_cursor_query a mapping with an identifier and a
\* string sort value for a temporal sort field.
TemporalString ==
    /\ call.op = "build_cursor_query"
    /\ call.args[1].kind = "dict"
    /\ call.args[2] \in TemporalFields
    /\ ~falsy(Get(call.args[1], "_id"))
    /\ Get(call.args[1], call.args[2]).type = "str"

\* C23: for a temporal sort field and a string sort value,
\* build_cursor_query compares against the parsed timestamp when the
\* string parses (a trailing Z read as a zero offset) and against the raw
\* string otherwise; it never raises.
C23_TemporalParseFallback ==
    TemporalString =>
        LET v == Get(call.args[1], call.args[2])
            expected == IF IsTimestamp(v) THEN InstantOf(v) ELSE v
        IN /\ ret.ok
           /\ ret.val # {}
           /\ \A c \in ret.val :
                /\ c.subs[1] = {Cond(call.args[2],
                                     IF call.args[3] = "desc"
                                     THEN "$lt" ELSE "$gt", expected)}
                /\ Cond(call.args[2], "$eq", expected) \in c.subs[2]

\* A sort value that is no timestamp, kept as it is.
C23_Witness ==
    /\ TemporalString
    /\ ~IsTimestamp(Get(call.args[1], call.args[2]))
    /\ ret.ok
    /\ \E c \in ret.val :
            Cond(call.args[2], "$eq", Get(call.args[1], call.args[2]))
                \in c.subs[2]

(***************************************************************************)
(* Properties of the errors of the codec.                                  *)
(***************************************************************************)
\* C25: a serialization failure inside encode is reported as
\* CursorEncodingError, a kind other than the invalid-cursor error of
\* decode, and the handler's except clauses do not turn it into
\* 400 INVALID_CURSOR.
C25_EncodeFailureIsDistinct ==
    (call.op = "encode" /\ ~ret.ok) =>
        /\ ret.exc = "CursorEncodingError"
        /\ \A token \in Tokens : ~decode(token).ok => decode(token).exc # ret.exc
        /\ handle(ret) # invalid_cursor_exception

\* The first instant from t on at which a call for the identifier would
\* be allowed by limiter l (at t + window_seconds every request recorded
\* up to t has left the window).
AllowedAgainAt(l, identifier, t) ==
    CHOOSE u \in t..(t + l.window_seconds) :
        /\ is_allowed(l, u, identifier).allowed
        /\ \A v \in t..(u - 1) : ~is_allowed(l, v, identifier).allowed

\* The step is a denied is_allowed call.
Denied ==
    /\ Len(history') = Len(history) + 1
    /\ ~history'[Len(history')].allowed

\* C29: a denied is_allowed call records no timestamp: it leaves the
\* identifier's recorded requests as they were but for the entries older
\* than the window, leaves every other identifier's records alone, and
\* does not move the instant at which the identifier is allowed again.
C29_DeniedRecordsNothing ==
    [][Denied =>
        LET identifier == history'[Len(history')].identifier
        IN /\ limiter'.requests[identifier] =
                    SelectSeq(limiter.requests[identifier],
                              LAMBDA req_time :
                                  req_time > now - limiter.window_seconds)
           /\ \A other \in Identifiers \ {identifier} :
                    limiter'.requests[other] = limiter.requests[other]
           /\ AllowedAgainAt(limiter', identifier, now) =
                    AllowedAgainAt(limiter, identifier, now)]_vars

\* An identifier denied and then allowed again exactly window_seconds
\* after its recorded request, while another identifier had a request on
\* record.
C29_Witness ==
    \E i \in 1..Len(history) : \E j \in (i + 1)..Len(history) :
        \E k \in (j + 1)..Len(history) : \E n \in (k + 1)..Len(history) :
            /\ limiter.max_requests = 1
            /\ history[i].allowed
            /\ history[j].identifier # history[i].identifier
            /\ history[j].allowed
            /\ history[k].identifier = history[i].identifier
            /\ ~history[k].allowed
            /\ n = Len(history)
            /\ history[n].identifier = history[i].identifier
            /\ history[n].allowed
            /\ history[n].at = history[i].at + limiter.window_seconds
            /\ limiter.requests[history[j].identifier] = <<history[j].at>>

(***************************************************************************)
(* Properties of concurrent handlers.                                      *)
(***************************************************************************)
\* The handlers that are inside is_allowed.
Inside == {h \in Handlers : tasks[h].pc \in {"prune", "check", "record"}}

\* The allowed calls of the identifier made at instant u.
AllowedAt(identifier, u) ==
    {j \in 1..Len(history) :
        /\ history[j].identifier = identifier
        /\ history[j].allowed
        /\ history[j].at = u}

\* The entries of instant u among the identifier's recorded requests.
RecordedAt(identifier, u) ==
    {i \in 1..Len(limiter.requests[identifier]) :
        limiter.requests[identifier][i] = u}

\* C26: handlers sharing one RateLimiter never interleave inside
\* is_allowed: at most one handler is between the start and the end of
\* is_allowed at a time, so no identifier has more than max_requests
\* allowed requests within a window, and every allowed request still
\* within the window is on record.
C26_IsAllowedNotInterleaved ==
    /\ Cardinality(Inside) <= 1
    /\ \A identifier \in Identifiers : \A u \in 0..now :
            Cardinality(UNION {AllowedAt(identifier, v) :
                        v \in (u - limiter.window_seconds + 1)..u})
                <= limiter.max_requests
    /\ \A identifier \in Identifiers :
            \A u \in (now - limiter.window_seconds + 1)..now :
                Cardinality(RecordedAt(identifier, u))
                    = Cardinality(AllowedAt(identifier, u))

\* Two requests of one identifier arrive at the same instant while the
\* first handler waits for its response: the limit of one request lets
\* the first in and denies the second.
C26_Witness ==
    \E g \in Handlers, h \in Handlers :
        /\ limiter.max_requests = 1
        /\ tasks[g].pc = "call_next"
        /\ tasks[h].pc = "done"
        /\ tasks[g].identifier = tasks[h].identifier
        /\ tasks[g].at = tasks[h].at
        /\ Len(history) = 2
        /\ history[1].allowed
        /\ ~history[2].allowed

(***************************************************************************)
(* Properties of following the cursors of a session.                       *)
(***************************************************************************)
\* The stored document a page entry stands for.
DocOf(id) == CHOOSE d \in collection : py_str(d["_id"]) = id

\* The predicate the cursor held by the client yields for the session's
\* sort field and order.
SessionCursorQuery ==
    CursorService_build_cursor_query(cursor, params.sort_by, params.order)

\* C27: over a collection that does not change, following next_cursor
\* ends: every next_cursor yields a non-empty predicate for the session's
\* sort field, every following page starts strictly after the last
\* document of the page before it, no later page holds a document of the
\* first page, and the session makes at most one request per document of
\* the collection, plus one.
C27_FollowingNextTerminates ==
    /\ pc = "paging" =>
            /\ cursor # <<>>
            /\ SessionCursorQuery.ok
            /\ SessionCursorQuery.val # {}
    /\ \A k \in 2..Len(pages) :
            /\ pages[k - 1] # <<>>
            /\ pages[k] # <<>> =>
                    Before(DocOf(pages[k - 1][Len(pages[k - 1])]),
                           DocOf(pages[k][1]), params.sort_by, params.order)
            /\ Range(pages[k]) \cap Range(pages[1]) = {}
    /\ Len(pages) <= Cardinality(collection) + 1
    /\ Len(pages) > Cardinality(collection) => pc = "done"

\* A session that took MaxDocs requests to reach the last page.
C27_Witness ==
    /\ pc = "done"
    /\ Len(pages) = MaxDocs
    /\ \A k \in 1..Len(pages) : pages[k] # <<>>

\* Position of an identifier in a sequence of identifiers.
IndexOf(ids, id) == CHOOSE i \in 1..Len(ids) : ids[i] = id

\* C28: prev_cursor encodes the first document of the current page, and
\* the request that passes it back returns the documents strictly after
\* that document, the current page shifted forward by one document, none
\* of them before the current page.
C28_PrevCursorShiftsByOne ==
    pc = "back" =>
        LET page == pages[Len(pages)]
            ordered == Ordered(collection)
            first == IndexOf(ordered, page[1])
            sent == decode(call.args[1][1]).val
        IN /\ Get(sent, "_id") = page[1]
           /\ Get(sent, params.sort_by)
                = Canonical(DocOf(page[1])[params.sort_by])
           /\ ret.ok
           /\ [i \in 1..Len(ret.val.items) |-> ret.val.items[i]["_id"]]
                = SubSeq(ordered, first + 1,
                         IF first + params.limit < Len(ordered)
                         THEN first + params.limit ELSE Len(ordered))
           /\ \A i \in 1..Len(ret.val.items) :
                IndexOf(ordered, ret.val.items[i]["_id"]) > first

(***************************************************************************)
(* Properties of the parameter validation of GET /news.                    *)
(***************************************************************************)
\* The instant a date string of the query denotes (0: none given).
Given(text) == IF text = <<>> THEN 0 ELSE text[1].n

\* The dates of the query are dates, and a parameter is outside what
\* NewsQueryParams admits: sort_by or order outside the allowed set, a
\* date in the future, or to_date before from_date.
Inadmissible(q) ==
    /\ \A text \in {q.from_date, q.to_date} :
            text = <<>> \/ text[1].form = "iso"
    /\ \/ q.sort_by \notin {"releasedAt", "title", "createdAt"}
       \/ q.order \notin {"asc", "desc"}
       \/ Given(q.from_date) > MaxTime
       \/ Given(q.to_date) > MaxTime
       \/ q.from_date # <<>> /\ q.to_date # <<>>
            /\ Given(q.to_date) < Given(q.from_date)

\* C30: a GET /news request whose parameters fail the validation of
\* NewsQueryParams is answered 400 INVALID_CURSOR, the answer to a
\* malformed cursor, whether or not it carries a cursor.
C30_ValidationFailureIsInvalidCursor ==
    (call.op = "GET /news" /\ Inadmissible(call.args[1])) =>
        /\ ret = HTTPException(400, "INVALID_CURSOR")
        /\ ret = router_get_news_list(
                    Params(<<>>, 1,
                           <<Token(Text("not-json", <<>>), TRUE, FALSE)>>,
                           "releasedAt", "desc"),
                    call.args[2])

\* A request without a cursor whose to_date is earlier than its
\* from_date.
C30_Witness ==
    /\ call.op = "GET /news"
    /\ call.args[1].cursor = <<>>
    /\ call.args[1].sort_by = "releasedAt"
    /\ call.args[1].order = "desc"
    /\ call.args[1].from_date = <<Str("iso", MaxTime, "Z")>>
    /\ call.args[1].to_date = <<Str("iso", 1, "")>>
    /\ ret = HTTPException(400, "INVALID_CURSOR")

====
